---- MODULE Spec2Model ----
(***************************************************************************)
(* Model of futures-util/src/future/maybe_done.rs: the MaybeDone           *)
(* combinator, a three-variant enum (Future / Done / Gone) driven by poll  *)
(* and harvested by take_output.                                           *)
(*                                                                         *)
(* The wrapper is the variable `this`.  `arg` is the inner future that was *)
(* handed to maybe_done().  `hist` is the log of the calls made on the     *)
(* wrapper so far: for each call its name, its argument, the wrapper       *)
(* before and after, what it returned, and the polls of the inner future   *)
(* it made.                                                                *)
(***************************************************************************)
EXTENDS Integers, Sequences, FiniteSets

VARIABLES this, arg, hist

vars == <<this, arg, hist>>

(* ---------------------------- bounds ----------------------------------- *)

\* largest number of resumes an inner future needs to complete
MaxK == 3
\* largest number of calls made on one wrapper
MaxOps == 5
\* largest number of calls made next to the driver's polls in LiveSpec
MaxLiveOps == 3

\* outputs an inner future can produce, and values a caller can write
Values == {"x", "y"}
\* wake handles a caller can pass to poll
Wakers == {"lw1", "lw2"}

(* ------------------- Poll<T> and Option<T> values ---------------------- *)

Pending == [tag |-> "Pending"]
Ready(v) == [tag |-> "Ready", val |-> v]
\* the unit value ()
Unit == "()"

None == [tag |-> "None"]
Some(v) == [tag |-> "Some", val |-> v]

\* the bool a call returns, as a value of the call log
True == [tag |-> "true"]
False == [tag |-> "false"]
Bool(b) == IF b THEN True ELSE False

\* a panic unwinding out of the call instead of a return value
Panic(msg) == [tag |-> "Panic", msg |-> msg]

(* ------------------------ the inner future ----------------------------- *)

\* An inner future that reports Pending on its first k-1 resumes and
\* completes with v on its k-th; n counts the resumes it has had.
Fut(k, v) == [k |-> k, n |-> 0, v |-> v]

Futs == {Fut(k, v) : k \in 1..MaxK, v \in Values}

\* <Fut as Future>::poll: the result, and the future after the resume
FutPoll(a, lw) ==
    [res |-> IF a.n + 1 >= a.k THEN Ready(a.v) ELSE Pending,
     fut |-> [a EXCEPT !.n = a.n + 1],
     lw  |-> lw]

(* ------------------------ enum MaybeDone ------------------------------- *)

Future(fut) == [tag |-> "Future", fut |-> fut]
Done(output) == [tag |-> "Done", output |-> output]
Gone == [tag |-> "Gone"]

\* maybe_done that resumes the future once while wrapping it
maybe_done_eager(future) ==
    IF future.n + 1 >= future.k
    THEN Done(future.v)
    ELSE Future([future EXCEPT !.n = future.n + 1])

maybe_done(future) == Future(future)

\* Each method yields the wrapper after the call (this), the value returned
\* (ret) and the polls of the inner future made during the call (inner).

\* output_mut with the arms of the match swapped for Done
output_mut_none(self) ==
    [this |-> self, ret |-> None, inner |-> <<>>]

\* output_mut that moves the output out of the wrapper
output_mut_take(self) ==
    [this  |-> IF self.tag = "Done" THEN Gone ELSE self,
     ret   |-> IF self.tag = "Done" THEN Some(self.output) ELSE None,
     inner |-> <<>>]

output_mut(self) ==
    [this  |-> self,
     ret   |-> IF self.tag = "Done" THEN Some(self.output) ELSE None,
     inner |-> <<>>]

\* output_mut followed by a store of w through the returned reference
\* a store that lands in a copy of the output, not in the wrapper
output_mut_write_copy(self, w) ==
    output_mut(self)

output_mut_write(self, w) ==
    LET r == output_mut(self) IN
    IF r.ret.tag = "Some"
    THEN [r EXCEPT !.this = Done(w)]
    ELSE r

\* take_output that hands the value out and leaves it in place
take_output_keep(self) ==
    IF self.tag # "Done"
    THEN [this |-> self, ret |-> None, inner |-> <<>>]
    ELSE [this |-> self, ret |-> Some(self.output), inner |-> <<>>]

\* take_output whose first match returns None for Future only
take_output_unreach(self) ==
    IF self.tag = "Future"
    THEN [this |-> self, ret |-> None, inner |-> <<>>]
    ELSE LET old == self
         IN IF old.tag = "Done"
            THEN [this |-> Gone, ret |-> Some(old.output), inner |-> <<>>]
            ELSE [this |-> Gone, ret |-> Panic("unreachable"), inner |-> <<>>]

\* take_output that resumes a future that is still pending
take_output_drive(self) ==
    IF self.tag = "Future"
    THEN LET p == FutPoll(self.fut, "lw1") IN
         IF p.res.tag = "Ready"
         THEN [this |-> Gone, ret |-> Some(p.res.val), inner |-> <<p>>]
         ELSE [this |-> Future(p.fut), ret |-> None, inner |-> <<p>>]
    ELSE IF self.tag = "Done"
    THEN [this |-> Gone, ret |-> Some(self.output), inner |-> <<>>]
    ELSE [this |-> self, ret |-> None, inner |-> <<>>]

\* take_output that replaces the wrapper by Gone before looking at it
take_output_replace_first(self) ==
    LET old == self
    IN IF old.tag = "Done"
       THEN [this |-> Gone, ret |-> Some(old.output), inner |-> <<>>]
       ELSE [this |-> Gone, ret |-> None, inner |-> <<>>]

\* take_output that panics when the value was taken before
take_output_gone_panics(self) ==
    IF self.tag = "Future"
    THEN [this |-> self, ret |-> None, inner |-> <<>>]
    ELSE IF self.tag = "Done"
    THEN [this |-> Gone, ret |-> Some(self.output), inner |-> <<>>]
    ELSE [this |-> self, ret |-> Panic("value already taken"), inner |-> <<>>]

take_output(self) ==
    IF self.tag # "Done"
    THEN [this |-> self, ret |-> None, inner |-> <<>>]
    ELSE LET old == self          \* mem::replace(this, MaybeDone::Gone)
         IN IF old.tag = "Done"
            THEN [this |-> Gone, ret |-> Some(old.output), inner |-> <<>>]
            ELSE [this |-> Gone, ret |-> Panic("unreachable"), inner |-> <<>>]

\* is_terminated that counts only Gone as terminated
is_terminated_gone(self) ==
    IF self.tag = "Gone" THEN TRUE ELSE FALSE

is_terminated(self) ==
    IF self.tag = "Future" THEN FALSE ELSE TRUE

\* poll without the final Pin::set: completion is reported, nothing is cached
poll_no_set(self, lw) ==
    IF self.tag = "Future"
    THEN LET p == FutPoll(self.fut, lw) IN
         [this  |-> Future(p.fut),
          ret   |-> IF p.res.tag = "Ready" THEN Ready(Unit) ELSE Pending,
          inner |-> <<p>>]
    ELSE IF self.tag = "Done"
    THEN [this |-> self, ret |-> Ready(Unit), inner |-> <<>>]
    ELSE [this  |-> self,
          ret   |-> Panic("MaybeDone polled after value taken"),
          inner |-> <<>>]

\* poll whose Gone arm reports completion instead of panicking
poll_gone_ready(self, lw) ==
    IF self.tag = "Future"
    THEN LET p == FutPoll(self.fut, lw) IN
         IF p.res.tag = "Ready"
         THEN [this |-> Done(p.res.val), ret |-> Ready(Unit), inner |-> <<p>>]
         ELSE [this |-> Future(p.fut), ret |-> Pending, inner |-> <<p>>]
    ELSE [this |-> self, ret |-> Ready(Unit), inner |-> <<>>]

\* poll that treats Done like Gone: no resume after completion
poll_done_panics(self, lw) ==
    IF self.tag = "Future"
    THEN LET p == FutPoll(self.fut, lw) IN
         IF p.res.tag = "Ready"
         THEN [this |-> Done(p.res.val), ret |-> Ready(Unit), inner |-> <<p>>]
         ELSE [this |-> Future(p.fut), ret |-> Pending, inner |-> <<p>>]
    ELSE [this  |-> self,
          ret   |-> Panic("MaybeDone polled after value taken"),
          inner |-> <<>>]

\* poll that moves the future out to resume it and does not put it back
\* when it is still pending
poll_pending_gone(self, lw) ==
    IF self.tag = "Future"
    THEN LET p == FutPoll(self.fut, lw) IN
         IF p.res.tag = "Ready"
         THEN [this |-> Done(p.res.val), ret |-> Ready(Unit), inner |-> <<p>>]
         ELSE [this |-> Gone, ret |-> Pending, inner |-> <<p>>]
    ELSE IF self.tag = "Done"
    THEN [this |-> self, ret |-> Ready(Unit), inner |-> <<>>]
    ELSE [this  |-> self,
          ret   |-> Panic("MaybeDone polled after value taken"),
          inner |-> <<>>]

\* poll that resumes the inner future with a waker of its own
poll_own_waker(self, lw) ==
    IF self.tag = "Future"
    THEN LET p == FutPoll(self.fut, "lw1") IN
         IF p.res.tag = "Ready"
         THEN [this |-> Done(p.res.val), ret |-> Ready(Unit), inner |-> <<p>>]
         ELSE [this |-> Future(p.fut), ret |-> Pending, inner |-> <<p>>]
    ELSE IF self.tag = "Done"
    THEN [this |-> self, ret |-> Ready(Unit), inner |-> <<>>]
    ELSE [this  |-> self,
          ret   |-> Panic("MaybeDone polled after value taken"),
          inner |-> <<>>]

\* poll that reports Pending without resuming the inner future
poll_no_resume(self, lw) ==
    IF self.tag = "Future"
    THEN [this |-> self, ret |-> Pending, inner |-> <<>>]
    ELSE IF self.tag = "Done"
    THEN [this |-> self, ret |-> Ready(Unit), inner |-> <<>>]
    ELSE [this  |-> self,
          ret   |-> Panic("MaybeDone polled after value taken"),
          inner |-> <<>>]

poll(self, lw) ==
    IF self.tag = "Future"
    THEN LET p == FutPoll(self.fut, lw) IN
         IF p.res.tag = "Ready"
         THEN [this  |-> Done(p.res.val),     \* Pin::set(self, Done(res))
               ret   |-> Ready(Unit),
               inner |-> <<p>>]
         ELSE [this  |-> Future(p.fut),
               ret   |-> Pending,
               inner |-> <<p>>]
    ELSE IF self.tag = "Done"
    THEN [this |-> self, ret |-> Ready(Unit), inner |-> <<>>]
    ELSE [this  |-> self,
          ret   |-> Panic("MaybeDone polled after value taken"),
          inner |-> <<>>]

(* --------------------------- the calls --------------------------------- *)

Event(op, a, r) ==
    [op |-> op, arg |-> a, pre |-> this, post |-> r.this,
     ret |-> r.ret, inner |-> r.inner]

Call(op, a, r) ==
    /\ Len(hist) < MaxOps
    /\ this' = r.this
    /\ hist' = Append(hist, Event(op, a, r))
    /\ UNCHANGED arg

Init ==
    /\ arg \in Futs
    /\ this = maybe_done(arg)
    /\ hist = <<>>

Poll == \E lw \in Wakers : Call("poll", <<lw>>, poll(this, lw))

TakeOutput == Call("take_output", <<>>, take_output(this))

OutputMut == Call("output_mut", <<>>, output_mut(this))

OutputMutWrite == \E w \in Values : Call("output_mut", <<w>>, output_mut_write(this, w))

IsTerminated ==
    Call("is_terminated", <<>>,
         [this |-> this, ret |-> Bool(is_terminated(this)), inner |-> <<>>])

Next ==
    \/ Poll
    \/ TakeOutput
    \/ OutputMut
    \/ OutputMutWrite
    \/ IsTerminated

Spec == Init /\ [][Next]_vars

\* The driver of a wrapper that is still Future polls it again, whatever
\* else has been called on it.  An inner future needs at most MaxK resumes,
\* so these polls stop by themselves; the length guard only closes the
\* state space.
PollFuture ==
    /\ this.tag = "Future"
    /\ Len(hist) < MaxLiveOps + MaxK
    /\ \E lw \in Wakers :
          /\ this' = poll(this, lw).this
          /\ hist' = Append(hist, Event("poll", <<lw>>, poll(this, lw)))
    /\ UNCHANGED arg

LiveNext ==
    \/ PollFuture
    \/ (Len(hist) < MaxLiveOps /\ Next)

\* the calls of Spec, with a driver that keeps polling a Future wrapper
LiveSpec == Init /\ [][LiveNext]_vars /\ WF_vars(PollFuture)

(* ----------------------- reading the call log -------------------------- *)

Calls == 1..Len(hist)

IsCall(i, op) == hist[i].op = op

\* number of polls of the wrapper among the first i calls
NPolls(i) == Cardinality({j \in 1..i : IsCall(j, "poll")})

\* call j moved the wrapper from Future to Done
Completes(j) == hist[j].pre.tag = "Future" /\ hist[j].post.tag = "Done"

\* call j returned Some
TookSome(j) == IsCall(j, "take_output") /\ hist[j].ret.tag = "Some"

\* call j stored a value through the reference output_mut returned
Wrote(j) ==
    /\ IsCall(j, "output_mut")
    /\ hist[j].arg # <<>>
    /\ hist[j].ret.tag = "Some"

\* the value the wrapper caches just before call i: the inner future's
\* output, or the last value stored over it
Cached(i) ==
    LET W == {j \in 1..(i - 1) : Wrote(j)} IN
    IF W = {} THEN arg.v
    ELSE hist[CHOOSE j \in W : \A l \in W : l <= j].arg[1]

(* ------------------------------ C1 ------------------------------------- *)

\* C1: with an inner future that completes on its k-th resume, the first
\* k-1 polls of the wrapper return Pending and the k-th returns Ready(());
\* is_terminated is false before the k-th poll and true from it onward,
\* also after take_output.
C1_PendingThenReady ==
    /\ \A i \in Calls :
          IsCall(i, "poll") =>
            /\ NPolls(i) < arg.k => hist[i].ret = Pending
            /\ NPolls(i) = arg.k => hist[i].ret = Ready(Unit)
    /\ \A i \in Calls :
          IsCall(i, "is_terminated") =>
            (hist[i].ret = True <=> NPolls(i) >= arg.k)
    /\ is_terminated(this) <=> NPolls(Len(hist)) >= arg.k

C1_Witness ==
    /\ arg.k >= 2
    /\ Len(hist) = arg.k + 2
    /\ \A i \in 1..arg.k : IsCall(i, "poll")
    /\ TookSome(arg.k + 1)
    /\ IsCall(arg.k + 2, "is_terminated")
    /\ hist[arg.k + 2].ret = True

(* ------------------------------ C2 ------------------------------------- *)

\* C2: a take_output call returns Some exactly when it is the first
\* take_output made after the wrapper became Done; earlier calls and later
\* calls return None, so Some is returned at most once.  The value is the
\* cached one: the inner future's output when nothing was stored over it.
C2_TakeOnce ==
    /\ \A i \in Calls :
          IsCall(i, "take_output") =>
            /\ hist[i].ret.tag \in {"Some", "None"}
            /\ hist[i].ret.tag = "Some" <=>
                  \E j \in 1..(i - 1) :
                     /\ Completes(j)
                     /\ \A l \in (j + 1)..(i - 1) : ~IsCall(l, "take_output")
            /\ hist[i].ret.tag = "Some" => hist[i].ret.val = Cached(i)
    /\ Cardinality({i \in Calls : TookSome(i)}) <= 1

C2_Witness ==
    /\ Len(hist) = 4
    /\ IsCall(1, "take_output") /\ hist[1].ret = None
    /\ IsCall(2, "poll") /\ Completes(2)
    /\ IsCall(3, "take_output") /\ hist[3].ret = Some(arg.v)
    /\ IsCall(4, "take_output") /\ hist[4].ret = None

(* ------------------------------ C3 ------------------------------------- *)

\* C3: a poll of a Gone wrapper panics: it returns neither Pending nor
\* Ready, polls nothing, and leaves the wrapper Gone.
C3_PollGonePanics ==
    \A i \in Calls :
       (IsCall(i, "poll") /\ hist[i].pre.tag = "Gone") =>
         /\ hist[i].ret.tag = "Panic"
         /\ hist[i].inner = <<>>
         /\ hist[i].post = Gone

C3_Witness ==
    \E i \in Calls :
       /\ i > 1
       /\ TookSome(i - 1)
       /\ IsCall(i, "poll")
       /\ hist[i].ret.tag = "Panic"
       /\ this = Gone

(* ------------------------------ C4 ------------------------------------- *)

\* some resume of the inner future has reported completion
InnerCompleted ==
    \E j \in Calls :
       /\ hist[j].inner # <<>>
       /\ hist[j].inner[1].res.tag = "Ready"

C6_PollDoneIdempotent ==
    \A i \in Calls :
       (IsCall(i, "poll") /\ hist[i].pre.tag = "Done") =>
         /\ hist[i].ret = Ready(Unit)
         /\ hist[i].post = hist[i].pre
         /\ hist[i].inner = <<>>

C6_Witness ==
    /\ Len(hist) = 5
    /\ Completes(1)
    /\ Wrote(2)
    /\ \A i \in 3..5 : IsCall(i, "poll") /\ hist[i].ret = Ready(Unit)
    /\ this = Done(hist[2].arg[1])
    /\ this # Done(arg.v)

(* ------------------------------ C7 ------------------------------------- *)

\* C7: take_output never polls the inner future; on a Future or Gone
\* wrapper it returns None and leaves the wrapper as it was; the only
\* change it ever makes is Done to Gone.
C7_TakeDoesNotDrive ==
    \A i \in Calls :
       IsCall(i, "take_output") =>
         /\ hist[i].inner = <<>>
         /\ hist[i].pre.tag \in {"Future", "Gone"} =>
               (hist[i].ret = None /\ hist[i].post = hist[i].pre)
         /\ hist[i].pre.tag = "Done" => hist[i].post = Gone
         /\ hist[i].post # hist[i].pre =>
               (hist[i].pre.tag = "Done" /\ hist[i].post = Gone)

C7_Witness ==
    /\ arg.k = 2
    /\ Len(hist) = 5
    /\ IsCall(1, "poll") /\ hist[1].ret = Pending
    /\ IsCall(2, "take_output") /\ hist[2].pre = Future([arg EXCEPT !.n = 1])
    /\ hist[2].post = hist[2].pre
    /\ Completes(3)
    /\ TookSome(4)
    /\ IsCall(5, "take_output") /\ hist[5].pre = Gone /\ hist[5].ret = None

(* ------------------------------ C8 ------------------------------------- *)

\* C8: is_terminated returns true iff the wrapper is Done or Gone, false
\* iff it is Future, and a call of it leaves the wrapper unchanged and
\* polls nothing.
C8_IsTerminatedPure ==
    /\ is_terminated(this) <=> this.tag \in {"Done", "Gone"}
    /\ ~is_terminated(this) <=> this.tag = "Future"
    /\ \A i \in Calls :
          IsCall(i, "is_terminated") =>
            /\ hist[i].ret = True <=> hist[i].pre.tag \in {"Done", "Gone"}
            /\ hist[i].ret = False <=> hist[i].pre.tag = "Future"
            /\ hist[i].post = hist[i].pre
            /\ hist[i].inner = <<>>

C8_Witness ==
    /\ Len(hist) = 5
    /\ IsCall(1, "is_terminated") /\ hist[1].ret = False
    /\ Completes(2)
    /\ IsCall(3, "is_terminated") /\ hist[3].ret = True /\ hist[3].pre.tag = "Done"
    /\ TookSome(4)
    /\ IsCall(5, "is_terminated") /\ hist[5].ret = True /\ this = Gone

(* ------------------------------ C9 ------------------------------------- *)

\* C9: output_mut, take_output and is_terminated never panic, whatever the
\* state and the calls made before; on a wrapper that is not Done,
\* output_mut and take_output return None.  The unreachable!() of
\* take_output is never reached.
C9_AccessorsTotal ==
    /\ \A i \in Calls :
          /\ IsCall(i, "is_terminated") => hist[i].ret \in {True, False}
          /\ (IsCall(i, "output_mut") \/ IsCall(i, "take_output")) =>
                /\ hist[i].ret.tag \in {"Some", "None"}
                /\ hist[i].pre.tag # "Done" => hist[i].ret = None
    /\ take_output(this).ret.tag # "Panic"
    /\ output_mut(this).ret.tag # "Panic"
    /\ is_terminated(this) \in BOOLEAN

C9_Witness ==
    /\ Len(hist) = 5
    /\ IsCall(1, "take_output") /\ hist[1].pre.tag = "Future"
    /\ Completes(2)
    /\ TookSome(3)
    /\ IsCall(4, "take_output") /\ hist[4].pre = Gone /\ hist[4].ret = None
    /\ IsCall(5, "output_mut") /\ hist[5].pre = Gone /\ hist[5].ret = None

(* ------------------------------ C10 ------------------------------------ *)

\* C10: maybe_done yields a Future wrapper holding the given future with no
\* resume made; until the first poll the wrapper stays so, is_terminated
\* is false, and take_output and output_mut return None.
C10_ConstructedPending ==
    NPolls(Len(hist)) = 0 =>
      /\ this = Future(arg)
      /\ this.fut.n = 0
      /\ ~is_terminated(this)
      /\ \A i \in Calls :
            /\ hist[i].inner = <<>>
            /\ IsCall(i, "is_terminated") => hist[i].ret = False
            /\ ~IsCall(i, "is_terminated") => hist[i].ret = None

C10_Witness ==
    /\ Len(hist) = 4
    /\ NPolls(4) = 0
    /\ IsCall(1, "take_output")
    /\ IsCall(2, "output_mut") /\ hist[2].arg = <<>>
    /\ IsCall(3, "output_mut") /\ hist[3].arg # <<>>
    /\ IsCall(4, "is_terminated")
    /\ this = maybe_done(arg)

(* ------------------------------ C11 ------------------------------------ *)

\* the log is the wrapper's whole life: it starts at maybe_done(arg), each
\* call starts where the one before ended, and the last ends at `this`
Chained ==
    /\ Len(hist) = 0 => this = maybe_done(arg)
    /\ Len(hist) > 0 =>
          /\ hist[1].pre = maybe_done(arg)
          /\ hist[Len(hist)].post = this
    /\ \A i \in 1..(Len(hist) - 1) : hist[i + 1].pre = hist[i].post

\* call i resumed the inner future and the inner future reported completion
InnerReady(i) ==
    /\ hist[i].inner # <<>>
    /\ hist[i].inner[1].res.tag = "Ready"

\* C11: the variant of the wrapper changes only from Future to Done, in a
\* poll in which the inner future reported completion, and from Done to
\* Gone, in a take_output; it never becomes Future again, never goes from
\* Future to Gone, and never leaves Gone.
C11_OneDirectional ==
    /\ Chained
    /\ \A i \in Calls :
          hist[i].post.tag # hist[i].pre.tag =>
            \/ /\ hist[i].pre.tag = "Future"
               /\ hist[i].post.tag = "Done"
               /\ IsCall(i, "poll")
               /\ InnerReady(i)
            \/ /\ hist[i].pre.tag = "Done"
               /\ hist[i].post.tag = "Gone"
               /\ IsCall(i, "take_output")
    /\ \A i \in Calls : \A j \in Calls :
          i < j =>
            /\ hist[i].post.tag = "Gone" => hist[j].post.tag = "Gone"
            /\ hist[i].post.tag = "Done" => hist[j].post.tag # "Future"

C11_Witness ==
    /\ arg.k = 2
    /\ Len(hist) = 5
    /\ IsCall(1, "take_output") /\ hist[1].post.tag = "Future"
    /\ IsCall(2, "poll") /\ hist[2].post.tag = "Future"
    /\ IsCall(3, "poll") /\ Completes(3)
    /\ TookSome(4) /\ hist[4].post = Gone
    /\ IsCall(5, "take_output") /\ this = Gone

(* ------------------------------ C12 ------------------------------------ *)

\* call i ended in a panic instead of a return value
Faulted(i) ==
    hist[i].ret.tag = "Panic"

\* C12: whatever polls and take_output / output_mut / is_terminated calls
\* are made, a call panics iff it is a poll of a Gone wrapper; a poll of a
\* Future wrapper is forwarded to the inner future, also when it is
\* repeated, and a poll of a Done wrapper does nothing.
C12_FaultIffPollGone ==
    \A i \in Calls :
       /\ Faulted(i) <=> (IsCall(i, "poll") /\ hist[i].pre.tag = "Gone")
       /\ (IsCall(i, "poll") /\ hist[i].pre.tag = "Future") =>
             /\ Len(hist[i].inner) = 1
             /\ hist[i].inner[1].fut.n = hist[i].pre.fut.n + 1
             /\ hist[i].ret \in {Pending, Ready(Unit)}
       /\ (IsCall(i, "poll") /\ hist[i].pre.tag = "Done") =>
             /\ hist[i].inner = <<>>
             /\ hist[i].post = hist[i].pre

C12_Witness ==
    /\ arg.k = 2
    /\ Len(hist) = 5
    /\ IsCall(1, "poll") /\ hist[1].ret = Pending /\ ~Faulted(1)
    /\ IsCall(2, "poll") /\ Completes(2) /\ ~Faulted(2)
    /\ IsCall(3, "poll") /\ hist[3].pre.tag = "Done" /\ ~Faulted(3)
    /\ TookSome(4) /\ ~Faulted(4)
    /\ IsCall(5, "poll") /\ hist[5].pre = Gone /\ Faulted(5)

(* ------------------------------ C13 ------------------------------------ *)

\* C13: every take_output that returns Some comes after a poll in which
\* the inner future reported completion and the wrapper became Done; on a
\* wrapper never polled to completion no take_output returns Some.
C13_ReadyBeforeTake ==
    \A i \in Calls :
       TookSome(i) =>
         \E j \in 1..(i - 1) :
            /\ IsCall(j, "poll")
            /\ InnerReady(j)
            /\ Completes(j)
            /\ hist[j].ret = Ready(Unit)

C13_Witness ==
    /\ arg.k = 3
    /\ Len(hist) = 5
    /\ IsCall(1, "poll") /\ hist[1].ret = Pending
    /\ IsCall(2, "take_output") /\ hist[2].ret = None
    /\ IsCall(3, "poll") /\ hist[3].ret = Pending
    /\ IsCall(4, "poll") /\ Completes(4) /\ InnerReady(4)
    /\ TookSome(5) /\ hist[5].ret = Some(arg.v)

(* ------------------------------ C14 ------------------------------------ *)

\* call i was a poll of a Future wrapper whose inner future stayed pending
PolledPending(i) ==
    /\ IsCall(i, "poll")
    /\ hist[i].pre.tag = "Future"
    /\ hist[i].inner # <<>>
    /\ hist[i].inner[1].res = Pending

\* C14: a poll of a Future wrapper whose inner future is still pending
\* returns Pending and leaves the wrapper Future, holding the same inner
\* future, resumed once; is_terminated stays false and a take_output or
\* output_mut that follows returns None.
C14_PendingKeepsFuture ==
    \A i \in Calls :
       PolledPending(i) =>
         /\ hist[i].ret = Pending
         /\ hist[i].post = Future([hist[i].pre.fut EXCEPT !.n = @ + 1])
         /\ ~is_terminated(hist[i].post)
         /\ (i < Len(hist) /\ IsCall(i + 1, "is_terminated")) =>
               hist[i + 1].ret = False
         /\ (i < Len(hist) /\ (IsCall(i + 1, "take_output")
                                  \/ IsCall(i + 1, "output_mut"))) =>
               (hist[i + 1].ret = None /\ hist[i + 1].post = hist[i].post)

C14_Witness ==
    /\ arg.k = 2
    /\ Len(hist) = 4
    /\ PolledPending(1)
    /\ IsCall(2, "is_terminated") /\ hist[2].ret = False
    /\ IsCall(3, "take_output") /\ hist[3].ret = None
    /\ IsCall(4, "output_mut") /\ hist[4].ret = None
    /\ this = Future([arg EXCEPT !.n = 1])

(* ------------------------------ C15 ------------------------------------ *)

\* C15: a poll of a Future wrapper resumes the inner future exactly once,
\* with the waker the poll was given; when the inner future completes with
\* v the wrapper becomes Done(v), the Future payload is gone, and the poll
\* returns Ready(()), not v.
C15_ForwardsAndCaches ==
    \A i \in Calls :
       (IsCall(i, "poll") /\ hist[i].pre.tag = "Future") =>
         /\ Len(hist[i].inner) = 1
         /\ hist[i].inner[1].lw = hist[i].arg[1]
         /\ hist[i].inner[1].fut.n = hist[i].pre.fut.n + 1
         /\ InnerReady(i) =>
               /\ hist[i].inner[1].res = Ready(arg.v)
               /\ hist[i].post = Done(arg.v)
               /\ DOMAIN hist[i].post = {"tag", "output"}
               /\ hist[i].ret = Ready(Unit)
               /\ DOMAIN hist[i].ret = {"tag", "val"}
               /\ hist[i].ret.val = Unit

C15_Witness ==
    /\ arg.k = 2
    /\ arg.v = "y"
    /\ Len(hist) = 2
    /\ IsCall(1, "poll") /\ hist[1].arg = <<"lw2">>
    /\ hist[1].inner[1].lw = "lw2" /\ hist[1].ret = Pending
    /\ IsCall(2, "poll") /\ hist[2].arg = <<"lw1">>
    /\ hist[2].inner[1].lw = "lw1" /\ InnerReady(2)
    /\ this = Done("y")

(* ------------------------------ C16 ------------------------------------ *)

\* the resumes of the inner future made by the first i calls
NInnerPolls(i) == Cardinality({j \in 1..i : hist[j].inner # <<>>})

\* C16: once the inner future has reported completion no later call of
\* poll, take_output, output_mut or is_terminated resumes it again; it
\* reports completion at most once and is resumed at most k times.
C16_NoPollAfterCompletion ==
    /\ \A i \in Calls : \A j \in Calls :
          (InnerReady(i) /\ i < j) => hist[j].inner = <<>>
    /\ Cardinality({i \in Calls : InnerReady(i)}) <= 1
    /\ \A i \in Calls : Len(hist[i].inner) <= 1
    /\ NInnerPolls(Len(hist)) <= arg.k

C16_Witness ==
    /\ Len(hist) = 5
    /\ IsCall(1, "poll") /\ InnerReady(1)
    /\ IsCall(2, "poll") /\ hist[2].inner = <<>>
    /\ IsCall(3, "output_mut")
    /\ TookSome(4)
    /\ IsCall(5, "poll") /\ hist[5].inner = <<>>
    /\ NInnerPolls(5) = 1

(* ------------------------------ C18 ------------------------------------ *)

\* C18: output_mut leaves the variant of the wrapper as it was, and the
\* wrapper itself when nothing is stored; a value stored through the
\* reference it returned is what every later output_mut sees and what the
\* later take_output returns, polls of the Done wrapper in between
\* notwithstanding.
C18_WriteIsKept ==
    /\ \A i \in Calls :
          IsCall(i, "output_mut") =>
            /\ hist[i].post.tag = hist[i].pre.tag
            /\ hist[i].arg = <<>> => hist[i].post = hist[i].pre
            /\ Wrote(i) => hist[i].post = Done(hist[i].arg[1])
    /\ \A i \in Calls : \A j \in Calls :
          (/\ i < j
           /\ Wrote(i)
           /\ \A l \in (i + 1)..(j - 1) : ~Wrote(l)
           /\ IsCall(j, "output_mut") \/ IsCall(j, "take_output")
           /\ hist[j].ret.tag = "Some") =>
            hist[j].ret = Some(hist[i].arg[1])

C18_Witness ==
    /\ arg.v = "x"
    /\ Len(hist) = 5
    /\ Completes(1)
    /\ Wrote(2) /\ hist[2].arg = <<"y">>
    /\ IsCall(3, "poll") /\ hist[3].ret = Ready(Unit)
    /\ IsCall(4, "output_mut") /\ hist[4].ret = Some("y")
    /\ IsCall(5, "take_output") /\ hist[5].ret = Some("y")

(* ------------------------------ C19 ------------------------------------ *)

\* C19: the wrapper holds the inner future iff it is Future and an output
\* iff it is Done; a take_output that returned Some leaves it Gone, holding
\* neither, for good, so the output is never in the wrapper and with the
\* caller at once and is handed out at most once.
C19_Ownership ==
    /\ this.tag \in {"Future", "Done", "Gone"}
    /\ "fut" \in DOMAIN this <=> this.tag = "Future"
    /\ "output" \in DOMAIN this <=> this.tag = "Done"
    /\ \A i \in Calls :
          TookSome(i) =>
            /\ hist[i].pre = Done(hist[i].ret.val)
            /\ hist[i].post = Gone
            /\ DOMAIN hist[i].post = {"tag"}
            /\ \A j \in Calls : i < j => hist[j].post = Gone
            /\ this = Gone
    /\ Cardinality({i \in Calls : TookSome(i)}) <= 1

C19_Witness ==
    /\ arg.k = 2
    /\ Len(hist) = 5
    /\ IsCall(1, "poll") /\ "fut" \in DOMAIN hist[1].post
    /\ IsCall(2, "poll") /\ "output" \in DOMAIN hist[2].post
    /\ TookSome(3)
    /\ IsCall(4, "output_mut") /\ hist[4].ret = None
    /\ IsCall(5, "take_output") /\ hist[5].ret = None
    /\ DOMAIN this = {"tag"}

(* ------------------------------ C17 ------------------------------------ *)

\* C17: with a driver that keeps polling the wrapper while it is Future,
\* the wrapper eventually is Done; a Done wrapper stays Done until a
\* take_output, and that take_output returns the cached value without
\* polling anything.
C17_EventuallyDone ==
    /\ <>(this.tag = "Done")
    /\ [][this.tag = "Done" =>
            \/ this'.tag = "Done"
            \/ /\ this' = Gone
               /\ hist'[Len(hist')].op = "take_output"
               /\ hist'[Len(hist')].ret = Some(this.output)
               /\ hist'[Len(hist')].inner = <<>>]_vars

C17_Witness ==
    /\ arg.k = MaxK
    /\ Len(hist) = MaxLiveOps + MaxK
    /\ \A i \in 1..MaxLiveOps :
          IsCall(i, "is_terminated") /\ hist[i].ret = False
    /\ \A i \in (MaxLiveOps + 1)..(MaxLiveOps + MaxK) : IsCall(i, "poll")
    /\ hist[MaxLiveOps + MaxK].ret = Ready(Unit)
    /\ this = Done(arg.v)

====
